---------------------------- MODULE Spec2Model ----------------------------
(***************************************************************************)
(* Model of the encrypt/decrypt tutorial API (config.js, encryption.js,    *)
(* routes.js, server.js).                                                  *)
(*                                                                         *)
(* JavaScript strings are sequences of UTF-16 code units (0..65535),       *)
(* Buffers are sequences of bytes (0..255).  The conversions the code      *)
(* asks Node for (utf8, hex, base64) are modelled by what Node does,       *)
(* including its lenient decoders.  The block cipher itself (AES-256,      *)
(* provided by OpenSSL) is modelled as an arbitrary keyed permutation of   *)
(* 16-byte blocks; CBC chaining and PKCS#7 padding around it are modelled  *)
(* as OpenSSL performs them.  SHA-512 is tabulated for the secrets the     *)
(* model draws the environment from.                                       *)
(***************************************************************************)
EXTENDS Integers, Sequences, FiniteSets, TLC

(***************************************************************************)
(* Bounds of the model.                                                    *)
(***************************************************************************)
\* most copies of a character the single client appends to a plaintext
MaxLen == 2
\* number of requests the server may have in flight at once
NumSlots == 2

(***************************************************************************)
(* Program constants.                                                      *)
(***************************************************************************)
\* .substring(0, 32) of the key digest
KeyLen == 32
\* .substring(0, 16) of the IV digest
IvLen == 16
\* block size of the configured cipher (aes-256-cbc)
BlockSize == 16

(***************************************************************************)
(* Generic helpers.                                                        *)
(***************************************************************************)
\* the sequence with the elements of f, a function on 1..n
AsSeq(f) == SubSeq(f, 1, Len(f))

Rep(x, n) == AsSeq([i \in 1..n |-> x])

Take(s, n) == SubSeq(s, 1, IF n < Len(s) THEN n ELSE Len(s))

Drop(s, n) == SubSeq(s, n + 1, Len(s))

XorByte(a, b) ==
  LET x(k) == (((a \div k) + (b \div k)) % 2) * k
  IN  x(1) + x(2) + x(4) + x(8) + x(16) + x(32) + x(64) + x(128)

XorBlock(A, B) == AsSeq([i \in 1..Len(A) |-> XorByte(A[i], B[i])])

(***************************************************************************)
(* JavaScript values: undefined or a string.                               *)
(***************************************************************************)
Undefined == [t |-> "undefined", s |-> <<>>]

Str(s) == [t |-> "string", s |-> s]

IsString(v) == v.t = "string"

(***************************************************************************)
(* 'utf8': string -> bytes, as cipher.update(data, 'utf8', ...) and        *)
(* Buffer.from(string) encode.  An unpaired surrogate is written as        *)
(* U+FFFD (EF BF BD).                                                      *)
(***************************************************************************)
IsHighSurrogate(c) == c >= 55296 /\ c <= 56319

IsLowSurrogate(c) == c >= 56320 /\ c <= 57343

ReplacementChar == 65533

Utf8OfCodePoint(cp) ==
  IF cp < 128 THEN <<cp>>
  ELSE IF cp < 2048 THEN <<192 + (cp \div 64), 128 + (cp % 64)>>
  ELSE IF cp < 65536
    THEN <<224 + (cp \div 4096), 128 + ((cp \div 64) % 64), 128 + (cp % 64)>>
  ELSE <<240 + (cp \div 262144), 128 + ((cp \div 4096) % 64),
         128 + ((cp \div 64) % 64), 128 + (cp % 64)>>

\* the bytes written for the code unit at position i of s: a surrogate pair is
\* written at its first half, as the four bytes of its code point
Utf8At(s, i) ==
  LET c == s[i] IN
  IF IsHighSurrogate(c) /\ i < Len(s) /\ IsLowSurrogate(s[i + 1])
    THEN Utf8OfCodePoint(65536 + (c - 55296) * 1024 + (s[i + 1] - 56320))
  ELSE IF IsLowSurrogate(c) /\ i > 1 /\ IsHighSurrogate(s[i - 1]) THEN <<>>
  ELSE IF IsHighSurrogate(c) \/ IsLowSurrogate(c)
    THEN Utf8OfCodePoint(ReplacementChar)
  ELSE Utf8OfCodePoint(c)

RECURSIVE Utf8Range(_, _, _)
Utf8Range(s, lo, hi) ==
  IF lo > hi THEN <<>>
  ELSE IF lo = hi THEN Utf8At(s, lo)
  ELSE LET mid == (lo + hi) \div 2
       IN  Utf8Range(s, lo, mid) \o Utf8Range(s, mid + 1, hi)

Utf8Encode(s) == Utf8Range(s, 1, Len(s))

\* a string with no unpaired surrogate (well-formed UTF-16)
RECURSIVE WellFormed(_)
WellFormed(s) ==
  IF s = <<>> THEN TRUE
  ELSE IF IsHighSurrogate(Head(s))
    THEN Len(s) >= 2 /\ IsLowSurrogate(s[2]) /\ WellFormed(Tail(Tail(s)))
  ELSE ~IsLowSurrogate(Head(s)) /\ WellFormed(Tail(s))

(***************************************************************************)
(* 'utf8': bytes -> string, as buff.toString('utf8') and the decipher's    *)
(* 'utf8' output decode.  Each maximal ill-formed subpart becomes U+FFFD.  *)
(***************************************************************************)
IsCont(b) == b >= 128 /\ b <= 191

\* the range the second byte of a sequence led by b1 must lie in
SecondLo(b1) == IF b1 = 224 THEN 160 ELSE IF b1 = 240 THEN 144 ELSE 128

SecondHi(b1) == IF b1 = 237 THEN 159 ELSE IF b1 = 244 THEN 143 ELSE 191

\* number of bytes of the sequence a lead byte announces (0: not a lead byte)
SeqLen(b1) ==
  IF b1 < 128 THEN 1
  ELSE IF b1 >= 194 /\ b1 <= 223 THEN 2
  ELSE IF b1 >= 224 /\ b1 <= 239 THEN 3
  ELSE IF b1 >= 240 /\ b1 <= 244 THEN 4
  ELSE 0

CodeUnitsOf(cp) ==
  IF cp < 65536 THEN <<cp>>
  ELSE <<55296 + ((cp - 65536) \div 1024), 56320 + ((cp - 65536) % 1024)>>

\* the character read at position i of b: [n |-> bytes consumed, u |-> the
\* code units they stand for]
Utf8Read(b, i) ==
  LET b1  == b[i]
      n   == SeqLen(b1)
      ok2 == i + 1 <= Len(b) /\ b[i + 1] >= SecondLo(b1) /\ b[i + 1] <= SecondHi(b1)
      ok3 == ok2 /\ i + 2 <= Len(b) /\ IsCont(b[i + 2])
      ok4 == ok3 /\ i + 3 <= Len(b) /\ IsCont(b[i + 3])
      bad(k) == [n |-> k, u |-> <<ReplacementChar>>]
  IN
  IF n = 1 THEN [n |-> 1, u |-> <<b1>>]
  ELSE IF n = 0 THEN bad(1)
  ELSE IF n = 2 THEN
    IF ok2 THEN [n |-> 2, u |-> <<(b1 - 192) * 64 + (b[i + 1] - 128)>>]
    ELSE bad(1)
  ELSE IF n = 3 THEN
    IF ok3 THEN [n |-> 3, u |-> <<(b1 - 224) * 4096 + (b[i + 1] - 128) * 64
                                   + (b[i + 2] - 128)>>]
    ELSE IF ok2 THEN bad(2)
    ELSE bad(1)
  ELSE
    IF ok4 THEN [n |-> 4, u |-> CodeUnitsOf((b1 - 240) * 262144
                                   + (b[i + 1] - 128) * 4096
                                   + (b[i + 2] - 128) * 64 + (b[i + 3] - 128))]
    ELSE IF ok3 THEN bad(3)
    ELSE IF ok2 THEN bad(2)
    ELSE bad(1)

\* the characters that start in lo..hi, reading from lo: [out |-> their code
\* units, next |-> where the following character starts]
RECURSIVE Utf8Scan(_, _, _)
Utf8Scan(b, lo, hi) ==
  IF lo > hi THEN [out |-> <<>>, next |-> lo]
  ELSE IF lo = hi THEN
    LET r == Utf8Read(b, lo) IN [out |-> r.u, next |-> lo + r.n]
  ELSE LET mid   == (lo + hi) \div 2
           left  == Utf8Scan(b, lo, mid)
           right == Utf8Scan(b, left.next, hi)
       IN  [out |-> left.out \o right.out, next |-> right.next]

Utf8Decode(b) == Utf8Scan(b, 1, Len(b)).out

(***************************************************************************)
(* 'hex'.  Encoding writes lowercase digits.  Decoding (the 'hex' input    *)
(* encoding of decipher.update) reads pairs of digits of either case and   *)
(* stops, without an error, at the first pair that is not two hex digits;  *)
(* a string of odd length is rejected before decoding starts.              *)
(***************************************************************************)
HexDigit(n) == IF n < 10 THEN 48 + n ELSE 87 + n

HexEncode(b) ==
  AsSeq([i \in 1..(2 * Len(b)) |->
           IF i % 2 = 1 THEN HexDigit(b[(i + 1) \div 2] \div 16)
           ELSE HexDigit(b[i \div 2] % 16)])

\* the value of a hex digit, 16 for any other character
Unhex(c) ==
  IF c >= 48 /\ c <= 57 THEN c - 48
  ELSE IF c >= 97 /\ c <= 102 THEN c - 87
  ELSE IF c >= 65 /\ c <= 70 THEN c - 55
  ELSE 16

\* the pairs of s before the first pair that is not two hex digits
HexPairs(s) ==
  LET bad == {j \in 1..(Len(s) \div 2) :
                Unhex(s[2 * j - 1]) = 16 \/ Unhex(s[2 * j]) = 16}
  IN  IF bad = {} THEN Len(s) \div 2
      ELSE (CHOOSE j \in bad : \A k \in bad : j <= k) - 1

HexDecode(s) ==
  AsSeq([i \in 1..HexPairs(s) |-> Unhex(s[2 * i - 1]) * 16 + Unhex(s[2 * i])])

\* Variant: a decoder that takes a string of any length
HexAnyLength(s) == TRUE

\* validateEncoding(data, 'hex'): a string of odd length is an error
HexLengthOk(s) == Len(s) % 2 = 0

(***************************************************************************)
(* 'base64'.  Encoding is standard Base64 with '=' padding.  Decoding      *)
(* (Buffer.from(string, 'base64')) never fails: it skips every character   *)
(* outside the alphabet, also accepts '-' and '_', stops at the first '=', *)
(* and drops the bits of an incomplete final byte.                         *)
(***************************************************************************)
PadChar == 61

B64Char(n) ==
  IF n < 26 THEN 65 + n
  ELSE IF n < 52 THEN 97 + (n - 26)
  ELSE IF n < 62 THEN 48 + (n - 52)
  ELSE IF n = 62 THEN 43
  ELSE 47

\* the sextet a character stands for, 64 for a character outside the alphabet
Unbase64(c) ==
  IF c >= 65 /\ c <= 90 THEN c - 65
  ELSE IF c >= 97 /\ c <= 122 THEN c - 97 + 26
  ELSE IF c >= 48 /\ c <= 57 THEN c - 48 + 52
  ELSE IF c = 43 \/ c = 45 THEN 62
  ELSE IF c = 47 \/ c = 95 THEN 63
  ELSE 64

\* the 6 bits of b that start at bit 6 * (j - 1), zero bits past the end
SextetOf(b, j) ==
  LET q == (6 * (j - 1)) \div 8
      r == (6 * (j - 1)) % 8
      at(k) == IF k <= Len(b) THEN b[k] ELSE 0
  IN  IF r = 0 THEN at(q + 1) \div 4
      ELSE IF r = 6 THEN (at(q + 1) % 4) * 16 + (at(q + 2) \div 16)
      ELSE IF r = 4 THEN (at(q + 1) % 16) * 4 + (at(q + 2) \div 64)
      ELSE at(q + 1) % 64

Base64Encode(b) ==
  LET chars == (8 * Len(b) + 5) \div 6
  IN  AsSeq([j \in 1..(4 * ((Len(b) + 2) \div 3)) |->
               IF j <= chars THEN B64Char(SextetOf(b, j)) ELSE PadChar])

\* the sextets of the legal characters before the first '='
Sextets(s) ==
  LET pads == {j \in 1..Len(s) : s[j] = PadChar}
      stop == IF pads = {} THEN Len(s)
              ELSE (CHOOSE j \in pads : \A k \in pads : j <= k) - 1
      legal(c) == Unbase64(c) # 64
      kept == SelectSeq(SubSeq(s, 1, stop), legal)
  IN  AsSeq([j \in 1..Len(kept) |-> Unbase64(kept[j])])

\* Variant: a strict decoder, which yields nothing unless the bits of the
\* incomplete final byte are all zero
BytesOfSextetsStrict(x) ==
  LET n     == (6 * Len(x)) \div 8
      spare == 6 * Len(x) - 8 * n
      low   == IF spare = 0 \/ spare = 6 THEN 0
               ELSE IF spare = 2 THEN x[Len(x)] % 4
               ELSE x[Len(x)] % 16
  IN  IF low # 0 THEN <<>>
      ELSE AsSeq([j \in 1..n |->
                    LET q == (8 * (j - 1)) \div 6
                        r == (8 * (j - 1)) % 6
                    IN  IF r = 0 THEN x[q + 1] * 4 + (x[q + 2] \div 16)
                        ELSE IF r = 2 THEN (x[q + 1] % 16) * 16 + (x[q + 2] \div 4)
                        ELSE (x[q + 1] % 4) * 64 + x[q + 2]])

\* the whole bytes the sextets hold; the bits of an incomplete byte are dropped
BytesOfSextets(x) ==
  AsSeq([j \in 1..((6 * Len(x)) \div 8) |->
           LET q == (8 * (j - 1)) \div 6
               r == (8 * (j - 1)) % 6
           IN  IF r = 0 THEN x[q + 1] * 4 + (x[q + 2] \div 16)
               ELSE IF r = 2 THEN (x[q + 1] % 16) * 16 + (x[q + 2] \div 4)
               ELSE (x[q + 1] % 4) * 64 + x[q + 2]])

Base64Decode(s) == BytesOfSextets(Sextets(s))

(***************************************************************************)
(* crypto.createHash('sha512').update(secret).digest('hex'), tabulated     *)
(* for the secrets the environment is drawn from: the digest as the        *)
(* lowercase hex string Node returns.                                      *)
(***************************************************************************)
Sha512Hex(secret) ==
  CASE secret = "secretKey" ->
    <<51, 50, 99, 100, 100, 56, 102, 54, 53, 101, 99, 57, 51, 52, 52,
      100, 51, 51, 57, 52, 100, 100, 101, 50, 56, 56, 100, 48, 99, 56,
      49, 51, 51, 102, 57, 100, 99, 55, 98, 55, 56, 51, 55, 48, 57, 97,
      50, 101, 51, 102, 98, 101, 52, 52, 50, 56, 53, 100, 52, 53, 57,
      54, 100, 53, 50, 50, 101, 57, 57, 53, 48, 54, 52, 50, 50, 102, 49,
      52, 100, 54, 54, 49, 56, 55, 101, 97, 50, 99, 53, 54, 100, 49, 53,
      52, 50, 53, 55, 51, 57, 50, 50, 102, 102, 102, 54, 57, 55, 97, 57,
      57, 49, 53, 56, 49, 55, 98, 57, 53, 102, 56, 53, 98, 99, 51, 52,
      51, 51, 54>>
    [] secret = "secretIV" ->
    <<101, 53, 56, 48, 101, 51, 102, 54, 100, 100, 55, 100, 53, 53, 98,
      51, 101, 102, 56, 52, 50, 54, 52, 51, 49, 50, 51, 49, 54, 102, 98,
      50, 99, 55, 98, 53, 52, 98, 56, 97, 56, 98, 54, 102, 53, 48, 98,
      50, 50, 57, 100, 56, 48, 48, 53, 50, 48, 99, 57, 56, 49, 56, 100,
      99, 54, 52, 52, 102, 48, 98, 50, 100, 99, 100, 53, 57, 55, 97, 99,
      54, 57, 98, 97, 56, 55, 48, 97, 55, 53, 98, 101, 53, 101, 98, 100,
      49, 56, 57, 99, 51, 48, 53, 55, 100, 98, 51, 53, 100, 102, 54, 48,
      51, 57, 57, 49, 51, 57, 102, 102, 102, 50, 97, 54, 100, 50, 98,
      102, 51>>
    [] secret = "otherKey" ->
    <<48, 52, 100, 49, 100, 101, 101, 97, 49, 101, 97, 49, 98, 53, 52,
      57, 51, 54, 98, 98, 57, 99, 51, 54, 57, 53, 54, 49, 53, 57, 101,
      50, 54, 54, 97, 55, 54, 49, 101, 57, 102, 51, 98, 54, 51, 49, 57,
      50, 98, 97, 101, 48, 50, 53, 52, 55, 100, 98, 54, 57, 56, 55, 53,
      102, 51, 55, 55, 50, 54, 100, 102, 56, 102, 97, 52, 55, 48, 53,
      53, 51, 55, 56, 101, 101, 56, 99, 54, 48, 57, 49, 56, 100, 54, 99,
      50, 101, 50, 52, 54, 50, 55, 52, 101, 50, 102, 97, 57, 52, 49, 54,
      56, 102, 49, 51, 99, 99, 98, 98, 57, 100, 101, 55, 53, 49, 54, 97,
      52, 56>>
    [] secret = "" ->
    <<99, 102, 56, 51, 101, 49, 51, 53, 55, 101, 101, 102, 98, 56, 98,
      100, 102, 49, 53, 52, 50, 56, 53, 48, 100, 54, 54, 100, 56, 48,
      48, 55, 100, 54, 50, 48, 101, 52, 48, 53, 48, 98, 53, 55, 49, 53,
      100, 99, 56, 51, 102, 52, 97, 57, 50, 49, 100, 51, 54, 99, 101,
      57, 99, 101, 52, 55, 100, 48, 100, 49, 51, 99, 53, 100, 56, 53,
      102, 50, 98, 48, 102, 102, 56, 51, 49, 56, 100, 50, 56, 55, 55,
      101, 101, 99, 50, 102, 54, 51, 98, 57, 51, 49, 98, 100, 52, 55,
      52, 49, 55, 97, 56, 49, 97, 53, 51, 56, 51, 50, 55, 97, 102, 57,
      50, 55, 100, 97, 51, 101>>

(***************************************************************************)
(* The block cipher: a keyed permutation of 16-byte blocks standing for    *)
(* AES-256.  BlockDecrypt(k, _) is the inverse of BlockEncrypt(k, _) for   *)
(* every key; nothing else about AES is assumed by the properties below.   *)
(* The key is the 32 characters of the key string, used as bytes.          *)
(***************************************************************************)
AddBlock(A, B) == AsSeq([i \in 1..Len(A) |-> (A[i] + B[i]) % 256])

SubBlock(A, B) == AsSeq([i \in 1..Len(A) |-> (A[i] - B[i] + 256) % 256])

\* running sums forwards, then backwards: every byte reaches every byte
RECURSIVE SumTo(_, _)
SumTo(B, i) == IF i = 0 THEN 0 ELSE (B[i] + SumTo(B, i - 1)) % 256

RECURSIVE SumFrom(_, _)
SumFrom(B, i) == IF i > Len(B) THEN 0 ELSE (B[i] + SumFrom(B, i + 1)) % 256

Mix(B) ==
  LET F == AsSeq([i \in 1..Len(B) |-> SumTo(B, i)])
  IN  AsSeq([i \in 1..Len(B) |-> SumFrom(F, i)])

Unmix(G) ==
  LET n == Len(G)
      F == AsSeq([i \in 1..n |->
                    (G[i] - (IF i = n THEN 0 ELSE G[i + 1]) + 256) % 256])
  IN  AsSeq([i \in 1..n |-> (F[i] - (IF i = 1 THEN 0 ELSE F[i - 1]) + 256) % 256])

\* a byte substitution and its inverse (167 * 23 = 1 mod 256)
SubBytes(B) == AsSeq([i \in 1..Len(B) |-> (B[i] * 167 + 13) % 256])

InvSubBytes(B) == AsSeq([i \in 1..Len(B) |-> ((B[i] + 256 - 13) * 23) % 256])

BlockEncrypt(k, B) ==
  AddBlock(SubBytes(Unmix(AddBlock(B, SubSeq(k, 1, BlockSize)))),
           SubSeq(k, BlockSize + 1, 2 * BlockSize))

BlockDecrypt(k, C) ==
  SubBlock(Mix(InvSubBytes(SubBlock(C, SubSeq(k, BlockSize + 1, 2 * BlockSize)))),
           SubSeq(k, 1, BlockSize))

(***************************************************************************)
(* CBC over whole blocks: [out, chain] after the blocks of data.           *)
(***************************************************************************)
RECURSIVE CbcEncrypt(_, _, _)
CbcEncrypt(k, chain, data) ==
  IF Len(data) < BlockSize THEN [out |-> <<>>, chain |-> chain]
  ELSE LET c == BlockEncrypt(k, XorBlock(Take(data, BlockSize), chain))
           r == CbcEncrypt(k, c, Drop(data, BlockSize))
       IN  [out |-> c \o r.out, chain |-> r.chain]

RECURSIVE CbcDecrypt(_, _, _)
CbcDecrypt(k, chain, data) ==
  IF Len(data) < BlockSize THEN [out |-> <<>>, chain |-> chain]
  ELSE LET c == Take(data, BlockSize)
           p == XorBlock(BlockDecrypt(k, c), chain)
           r == CbcDecrypt(k, c, Drop(data, BlockSize))
       IN  [out |-> p \o r.out, chain |-> r.chain]

(***************************************************************************)
(* PKCS#7 padding, as the cipher's final() adds and checks it.             *)
(***************************************************************************)
Pkcs7Pad(b) ==
  LET n == BlockSize - (Len(b) % BlockSize) IN b \o Rep(n, n)

\* the last byte n is in 1..BlockSize and the last n bytes all equal n
PaddingOk(block) ==
  LET n == block[Len(block)]
  IN  /\ n >= 1
      /\ n <= BlockSize
      /\ \A i \in (Len(block) - n + 1)..Len(block) : block[i] = n

\* Variant: final() checks the padding but leaves it in place
Pkcs7KeepPadding(block) == block

Pkcs7Unpad(block) == Take(block, Len(block) - block[Len(block)])

(***************************************************************************)
(* Cipher and Decipher objects (crypto.createCipheriv /                    *)
(* crypto.createDecipheriv): the key, the chaining value, the input not    *)
(* yet forming a block, and for a Decipher the last decrypted block, held  *)
(* back until final() has checked its padding.                             *)
(***************************************************************************)
KnownCipher(method) == method = "aes-256-cbc"

NewCipher(dec, k, iv) ==
  [dec |-> dec, key |-> k, chain |-> iv, buf |-> <<>>, held |-> <<>>]

\* cipher.update(bytes): [c |-> the object afterwards, out |-> bytes returned]
CipherUpdate(c, bytes) ==
  LET all  == c.buf \o bytes
      full == (Len(all) \div BlockSize) * BlockSize
      rest == Drop(all, full)
  IN
  IF ~c.dec THEN
    LET r == CbcEncrypt(c.key, c.chain, Take(all, full))
    IN  [c |-> [c EXCEPT !.chain = r.chain, !.buf = rest], out |-> r.out]
  ELSE IF bytes = <<>> THEN [c |-> c, out |-> <<>>]
  ELSE
    LET r   == CbcDecrypt(c.key, c.chain, Take(all, full))
        got == c.held \o r.out
        hold == rest = <<>> /\ Len(got) >= BlockSize
    IN  [c   |-> [c EXCEPT !.chain = r.chain, !.buf = rest,
                           !.held = IF hold THEN Drop(got, Len(got) - BlockSize)
                                    ELSE <<>>],
         out |-> IF hold THEN Take(got, Len(got) - BlockSize) ELSE got]

\* Variant: a Decipher whose final() returns nothing, instead of throwing,
\* when no block was ever decrypted
CipherFinalOfNothing(c) ==
  IF ~c.dec THEN
    [ok |-> TRUE, out |-> CbcEncrypt(c.key, c.chain, Pkcs7Pad(c.buf)).out]
  ELSE IF c.buf = <<>> /\ c.held = <<>> THEN [ok |-> TRUE, out |-> <<>>]
  ELSE IF c.buf # <<>> \/ ~PaddingOk(c.held) THEN [ok |-> FALSE, out |-> <<>>]
  ELSE [ok |-> TRUE, out |-> Pkcs7Unpad(c.held)]

\* cipher.final(): [ok |-> FALSE] when it throws, else the bytes returned
CipherFinal(c) ==
  IF ~c.dec THEN
    [ok |-> TRUE, out |-> CbcEncrypt(c.key, c.chain, Pkcs7Pad(c.buf)).out]
  ELSE IF c.buf # <<>> \/ c.held = <<>> \/ ~PaddingOk(c.held) THEN
    [ok |-> FALSE, out |-> <<>>]
  ELSE [ok |-> TRUE, out |-> Pkcs7Unpad(c.held)]

(***************************************************************************)
(* The state of the process and of its clients.                            *)
(***************************************************************************)
VARIABLES
  env,            \* process.env after dotenv.config(): the three settings
  pc,             \* how far module evaluation (startup) has got
  config,         \* the object config.js exports
  key,            \* encryption.js: const key
  encryptionIV,   \* encryption.js: const encryptionIV
  keyDerivations, \* how often the key has been derived
  ivDerivations,  \* how often the IV has been derived
  slots,          \* the requests in flight, each with its handler's locals
  heap,           \* the Cipher / Decipher objects the handlers created
  lastEnc,        \* client side: the last plaintext sent and envelope received
  failed,         \* some handler has thrown
  accepted,       \* some request has been accepted
  called          \* encryptData or decryptData has been entered

vars == <<env, pc, config, key, encryptionIV, keyDerivations, ivDerivations,
          slots, heap, lastEnc, failed, accepted, called>>

\* what the startup and the handlers leave alone
startupVars == <<key, encryptionIV, keyDerivations, ivDerivations>>

clientVars == <<lastEnc, accepted>>

(***************************************************************************)
(* The environment: each setting is absent, empty or set.                  *)
(***************************************************************************)
EnvUnset == [t |-> "undefined", s |-> ""]

EnvStr(s) == [t |-> "string", s |-> s]

\* !value in JavaScript: undefined and the empty string are falsy
Falsy(v) == v.t = "undefined" \/ v.s = ""

SecretKeys == {EnvUnset, EnvStr(""), EnvStr("secretKey")}

SecretIVs == {EnvUnset, EnvStr(""), EnvStr("secretIV")}

Methods == {EnvUnset, EnvStr(""), EnvStr("aes-256-cbc"), EnvStr("aes-256-xyz")}

NotLoaded ==
  [secret_key |-> EnvUnset, secret_iv |-> EnvUnset, ecnryption_method |-> EnvUnset]

(***************************************************************************)
(* Requests, responses and handler locals.                                 *)
(***************************************************************************)
Body(data, encryptedData) == [data |-> data, encryptedData |-> encryptedData]

NoBody == Body(Undefined, Undefined)

NoCipher == [dec |-> FALSE, key |-> <<>>, chain |-> <<>>, buf |-> <<>>, held |-> <<>>]

IdleSlot ==
  [stage |-> "idle", route |-> "", body |-> NoBody, cipher |-> 0,
   buff |-> <<>>, acc |-> <<>>, status |-> 0, json |-> NoBody]

NoExchange == [data |-> <<>>, envelope |-> <<>>]

SlotIds == 1..NumSlots

(***************************************************************************)
(* encryptData and decryptData as functions of their argument: what one    *)
(* call returns when nothing else runs.  [ok |-> FALSE] is a throw.        *)
(***************************************************************************)
Threw == [ok |-> FALSE, val |-> <<>>]

Returned(s) == [ok |-> TRUE, val |-> s]

encryptDataWith(method, k, iv, data) ==
  IF ~KnownCipher(method) \/ ~IsString(data) THEN Threw
  ELSE LET u == CipherUpdate(NewCipher(FALSE, k, iv), Utf8Encode(data.s))
           f == CipherFinal(u.c)
       IN  Returned(Base64Encode(Utf8Encode(HexEncode(u.out) \o HexEncode(f.out))))

decryptDataWith(method, k, iv, encryptedData) ==
  IF ~IsString(encryptedData) \/ ~KnownCipher(method) THEN Threw
  ELSE LET text == Utf8Decode(Base64Decode(encryptedData.s))
           u    == CipherUpdate(NewCipher(TRUE, k, iv), HexDecode(text))
           f    == CipherFinal(u.c)
       IN  IF ~HexLengthOk(text) \/ ~f.ok THEN Threw
           ELSE Returned(Utf8Decode(u.out \o f.out))

encryptData(data) ==
  encryptDataWith(config.ecnryption_method.s, key, encryptionIV, data)

decryptData(encryptedData) ==
  decryptDataWith(config.ecnryption_method.s, key, encryptionIV, encryptedData)

(***************************************************************************)
(* Startup: the modules are evaluated in import order, config.js, then     *)
(* encryption.js, then routes.js, then server.js, which listens.  A throw  *)
(* while a module is evaluated ends the process.                           *)
(***************************************************************************)
Init ==
  /\ env \in [SECRET_KEY : SecretKeys, SECRET_IV : SecretIVs,
              ECNRYPTION_METHOD : Methods]
  /\ pc = "config"
  /\ config = NotLoaded
  /\ key = <<>>
  /\ encryptionIV = <<>>
  /\ keyDerivations = 0
  /\ ivDerivations = 0
  /\ slots = [i \in SlotIds |-> IdleSlot]
  /\ heap = [i \in SlotIds |-> NoCipher]
  /\ lastEnc = NoExchange
  /\ failed = FALSE
  /\ accepted = FALSE
  /\ called = FALSE

LoadConfig ==
  /\ pc = "config"
  /\ config' = [secret_key |-> env.SECRET_KEY, secret_iv |-> env.SECRET_IV,
                ecnryption_method |-> env.ECNRYPTION_METHOD]
  /\ pc' = "encryption"
  /\ UNCHANGED <<env, startupVars, slots, heap, failed, called, clientVars>>

\* Variant: the check written with && in place of ||
ConfigAllMissing ==
  Falsy(config.secret_key) /\ Falsy(config.secret_iv)
    /\ Falsy(config.ecnryption_method)

\* if (!secret_key || !secret_iv || !ecnryption_method) throw
ConfigMissing ==
  Falsy(config.secret_key) \/ Falsy(config.secret_iv)
    \/ Falsy(config.ecnryption_method)

CheckConfig ==
  /\ pc = "encryption"
  /\ pc' = IF ConfigMissing THEN "crashed" ELSE "derive_key"
  /\ UNCHANGED <<env, config, startupVars, slots, heap, failed, called, clientVars>>

\* createHash('sha512').update(secret).digest('hex').substring(0, n);
\* update() throws for a value that is not a string
Derive(secret, n) == Take(Sha512Hex(secret.s), n)

DeriveKey ==
  /\ pc = "derive_key"
  /\ IF config.secret_key.t = "string"
       THEN /\ key' = Derive(config.secret_key, KeyLen)
            /\ keyDerivations' = keyDerivations + 1
            /\ pc' = "derive_iv"
       ELSE /\ pc' = "crashed"
            /\ UNCHANGED <<key, keyDerivations>>
  /\ UNCHANGED <<env, config, encryptionIV, ivDerivations, slots, heap, failed,
                 called, clientVars>>

DeriveIV ==
  /\ pc = "derive_iv"
  /\ IF config.secret_iv.t = "string"
       THEN /\ encryptionIV' = Derive(config.secret_iv, IvLen)
            /\ ivDerivations' = ivDerivations + 1
            /\ pc' = "routes"
       ELSE /\ pc' = "crashed"
            /\ UNCHANGED <<encryptionIV, ivDerivations>>
  /\ UNCHANGED <<env, config, key, keyDerivations, slots, heap, failed,
                 called, clientVars>>

\* routes.js: the two handlers are registered on the router
LoadRoutes ==
  /\ pc = "routes"
  /\ pc' = "server"
  /\ UNCHANGED <<env, config, startupVars, slots, heap, failed, called, clientVars>>

\* server.js: app.use(routes); app.listen(3000)
Listen ==
  /\ pc = "server"
  /\ pc' = "listening"
  /\ UNCHANGED <<env, config, startupVars, slots, heap, failed, called, clientVars>>

(***************************************************************************)
(* Request handling.  A handler is modelled statement by statement, so     *)
(* that the statements of two requests may interleave in any order (Node   *)
(* itself runs each handler to completion, which is one of the orders).    *)
(***************************************************************************)
\* the slot of a request that has just been routed to its handler
Arrived(route, body) ==
  [IdleSlot EXCEPT !.stage = "received", !.route = route, !.body = body]

\* res.json(...): the handler ends, its locals are gone
Respond(slot, status, json) ==
  [slot EXCEPT !.stage = "responded", !.status = status, !.json = json,
               !.cipher = 0, !.buff = <<>>, !.acc = <<>>]

\* Variant: nothing catches what a handler throws, and the process ends
ThrownUncaught(i, slot) ==
  /\ slots' = [slots EXCEPT ![i] = Respond(slot, 500, NoBody)]
  /\ failed' = TRUE
  /\ pc' = "crashed"

\* A handler throws: express catches the exception in the router and its
\* default error handler answers 500; the process goes on serving.
Thrown(i, slot) ==
  /\ slots' = [slots EXCEPT ![i] = Respond(slot, 500, NoBody)]
  /\ failed' = TRUE
  /\ pc' = pc

\* const { data } = req.body
DataOf(body) == body.data

\* Variant: the /decrypt handler reads the field `data`
EncryptedDataFromData(body) == body.data

\* const { encryptedData } = req.body
EncryptedDataOf(body) == body.encryptedData

\* Variant: one Cipher object, created once and shared by all calls
SharedCipherId(i) == 1

\* the object a create call returns: a new one for every call
CipherId(i) == i

\* Variant: the first call uses the derived IV, each later call an IV of its own
IvArgPerCall == IF called THEN Rep(0, IvLen) ELSE encryptionIV

\* the IV argument of createCipheriv / createDecipheriv
IvArg == encryptionIV

Release(h, id) == IF id = 0 THEN h ELSE [h EXCEPT ![id] = NoCipher]

\* Variant: encryptData derives the key again on every call
EncCreateDerivingKey(i, body) ==
  /\ pc = "listening"
  /\ slots[i].stage = "idle"
  /\ accepted' = TRUE
  /\ called' = TRUE
  /\ key' = Derive(config.secret_key, KeyLen)
  /\ keyDerivations' = keyDerivations + 1
  /\ IF KnownCipher(config.ecnryption_method.s)
       THEN /\ heap' = [heap EXCEPT ![i] = NewCipher(FALSE, key', encryptionIV)]
            /\ slots' = [slots EXCEPT ![i] =
                           [Arrived("/encrypt", body) EXCEPT !.stage = "created",
                                                             !.cipher = i]]
            /\ UNCHANGED <<pc, failed>>
       ELSE /\ slots' = [slots EXCEPT ![i] =
                           Respond(Arrived("/encrypt", body), 500, NoBody)]
            /\ failed' = TRUE
            /\ UNCHANGED <<pc, heap>>
  /\ UNCHANGED <<env, config, encryptionIV, ivDerivations, lastEnc>>

\* POST /encrypt arrives; encryptData(data) starts:
\* const cipher = crypto.createCipheriv(ecnryption_method, key, encryptionIV),
\* which throws for a cipher name OpenSSL does not know
EncCreate(i, body) ==
  /\ pc = "listening"
  /\ slots[i].stage = "idle"
  /\ accepted' = TRUE
  /\ called' = TRUE
  /\ IF KnownCipher(config.ecnryption_method.s)
       THEN /\ heap' = [heap EXCEPT ![CipherId(i)] = NewCipher(FALSE, key, IvArg)]
            /\ slots' = [slots EXCEPT ![i] =
                           [Arrived("/encrypt", body) EXCEPT !.stage = "created",
                                                             !.cipher = CipherId(i)]]
            /\ UNCHANGED <<pc, failed>>
       ELSE /\ Thrown(i, Arrived("/encrypt", body))
            /\ UNCHANGED heap
  /\ UNCHANGED <<env, config, startupVars, lastEnc>>

\* encryptData: cipher.update(data, 'utf8', 'hex'); throws unless data is a string
EncUpdate(i) ==
  /\ pc = "listening"
  /\ slots[i].stage = "created"
  /\ slots[i].route = "/encrypt"
  /\ LET data == DataOf(slots[i].body)
         id   == slots[i].cipher
     IN  IF IsString(data)
           THEN LET u == CipherUpdate(heap[id], Utf8Encode(data.s))
                IN  /\ heap' = [heap EXCEPT ![id] = u.c]
                    /\ slots' = [slots EXCEPT ![i].stage = "updated",
                                              ![i].acc = HexEncode(u.out)]
                    /\ UNCHANGED <<pc, failed>>
           ELSE /\ Thrown(i, slots[i])
                /\ heap' = Release(heap, id)
  /\ UNCHANGED <<env, config, startupVars, clientVars, called>>

\* encryptData: Buffer.from(... + cipher.final('hex')).toString('base64'),
\* then the route's res.json({ encryptedData })
EncFinal(i) ==
  /\ pc = "listening"
  /\ slots[i].stage = "updated"
  /\ slots[i].route = "/encrypt"
  /\ LET id  == slots[i].cipher
         f   == CipherFinal(heap[id])
         hex == slots[i].acc \o HexEncode(f.out)
     IN  /\ slots' = [slots EXCEPT ![i] =
                        Respond(@, 200,
                                Body(Undefined, Str(Base64Encode(Utf8Encode(hex)))))]
         /\ heap' = Release(heap, id)
  /\ UNCHANGED <<env, pc, config, startupVars, clientVars, failed, called>>

\* POST /decrypt arrives; decryptData(encryptedData) starts:
\* const buff = Buffer.from(encryptedData, 'base64'), which throws unless
\* encryptedData is a string; then crypto.createDecipheriv(...)
DecCreate(i, body) ==
  /\ pc = "listening"
  /\ slots[i].stage = "idle"
  /\ accepted' = TRUE
  /\ called' = TRUE
  /\ LET e == EncryptedDataOf(body)
     IN  IF IsString(e) /\ KnownCipher(config.ecnryption_method.s)
           THEN /\ heap' = [heap EXCEPT ![CipherId(i)] = NewCipher(TRUE, key, IvArg)]
                /\ slots' = [slots EXCEPT ![i] =
                               [Arrived("/decrypt", body) EXCEPT
                                  !.stage = "created", !.cipher = CipherId(i),
                                  !.buff = Base64Decode(e.s)]]
                /\ UNCHANGED <<pc, failed>>
           ELSE /\ Thrown(i, Arrived("/decrypt", body))
                /\ UNCHANGED heap
  /\ UNCHANGED <<env, config, startupVars, lastEnc>>

\* decryptData: decipher.update(buff.toString('utf8'), 'hex', 'utf8'); throws
\* for a string of odd length.  acc holds the bytes decrypted so far (the
\* decipher's string decoder turns update's and final's bytes into one text).
DecUpdate(i) ==
  /\ pc = "listening"
  /\ slots[i].stage = "created"
  /\ slots[i].route = "/decrypt"
  /\ LET text == Utf8Decode(slots[i].buff)
         id   == slots[i].cipher
     IN  IF HexLengthOk(text)
           THEN LET u == CipherUpdate(heap[id], HexDecode(text))
                IN  /\ heap' = [heap EXCEPT ![id] = u.c]
                    /\ slots' = [slots EXCEPT ![i].stage = "updated",
                                              ![i].acc = u.out,
                                              ![i].buff = <<>>]
                    /\ UNCHANGED <<pc, failed>>
           ELSE /\ Thrown(i, slots[i])
                /\ heap' = Release(heap, id)
  /\ UNCHANGED <<env, config, startupVars, clientVars, called>>

\* decryptData: ... + decipher.final('utf8'), which throws on a wrong final
\* block length or bad padding; then the route's res.json({ data })
DecFinal(i) ==
  /\ pc = "listening"
  /\ slots[i].stage = "updated"
  /\ slots[i].route = "/decrypt"
  /\ LET id == slots[i].cipher
         f  == CipherFinal(heap[id])
     IN  /\ IF f.ok
              THEN /\ slots' = [slots EXCEPT ![i] =
                                  Respond(@, 200,
                                    Body(Str(Utf8Decode(slots[i].acc \o f.out)),
                                         Undefined))]
                   /\ UNCHANGED <<pc, failed>>
              ELSE Thrown(i, slots[i])
         /\ heap' = Release(heap, id)
  /\ UNCHANGED <<env, config, startupVars, clientVars, called>>

\* the client reads the response; it keeps the last successful encrypt exchange
Deliver(i) ==
  /\ slots[i].stage = "responded"
  /\ slots' = [slots EXCEPT ![i] = IdleSlot]
  /\ lastEnc' = IF slots[i].route = "/encrypt" /\ slots[i].status = 200
                  THEN [data |-> slots[i].body.data.s,
                        envelope |-> slots[i].json.encryptedData.s]
                  ELSE lastEnc
  /\ UNCHANGED <<env, pc, config, startupVars, heap, failed, accepted, called>>

(***************************************************************************)
(* The requests clients send.                                              *)
(***************************************************************************)
Req(route, body) == [route |-> route, body |-> body]

\* express routes a request to the handler registered for its path
Dispatch(i, r) ==
  IF r.route = "/encrypt" THEN EncCreate(i, r.body) ELSE DecCreate(i, r.body)

\* the empty string and "Hi"
ServerPlaintexts == {<<>>, <<72, 105>>}

\* POST /encrypt with data or without it; POST /decrypt with the envelope
\* last received, without one, or with an empty one
ServerRequests ==
  {Req("/encrypt", Body(Str(p), Undefined)) : p \in ServerPlaintexts}
    \cup {Req("/encrypt", NoBody),
          Req("/decrypt", NoBody),
          Req("/decrypt", Body(Undefined, Str(<<>>)))}
    \cup (IF lastEnc = NoExchange THEN {}
          ELSE {Req("/decrypt", Body(Undefined, Str(lastEnc.envelope)))})

\* a client of the server sends one of its requests
ServerSend(i) ==
  /\ pc = "listening"
  /\ slots[i].stage = "idle"
  /\ \E r \in ServerRequests : Dispatch(i, r)

Startup ==
  \/ LoadConfig
  \/ CheckConfig
  \/ DeriveKey
  \/ DeriveIV
  \/ LoadRoutes
  \/ Listen

Next ==
  \/ Startup
  \/ \E i \in SlotIds : ServerSend(i)
  \/ \E i \in SlotIds : EncUpdate(i)
  \/ \E i \in SlotIds : EncFinal(i)
  \/ \E i \in SlotIds : DecUpdate(i)
  \/ \E i \in SlotIds : DecFinal(i)
  \/ \E i \in SlotIds : Deliver(i)

Spec == Init /\ [][Next]_vars

(***************************************************************************)
(* A single client that sends one request at a time, with many plaintexts  *)
(* and with damaged, misplaced or foreign envelopes.                       *)
(***************************************************************************)
\* characters of one, two, three and four bytes (the last a surrogate pair),
\* and the two surrogate halves on their own
Characters ==
  {<<65>>, <<233>>, <<8364>>, <<55357, 56832>>, <<55357>>, <<56832>>}

\* n times the character c
RECURSIVE Repeat(_, _)
Repeat(c, n) == IF n = 0 THEN <<>> ELSE c \o Repeat(c, n - 1)

\* the texts of at most n copies of one character
Texts(n) == {Repeat(c, k) : c \in Characters, k \in 0..n}

\* nothing, or fourteen 'x', so that plaintexts end on either side of a block
Prefixes == {<<>>, Rep(120, 14)}

Plaintexts == {pre \o t : pre \in Prefixes, t \in Texts(MaxLen)}

\* how far a replaced Base64 character is moved in the alphabet
TamperDeltas == {1, 2, 3, 16, 32}

\* e with the character at pos replaced by another character of the alphabet
Tamper(e, pos, d) == [e EXCEPT ![pos] = B64Char((Unbase64(@) + d) % 64)]

Tampered(e) == {Tamper(e, pos, d) : pos \in 1..Len(e), d \in TamperDeltas}

\* e with a character outside the Base64 alphabet put before, inside or after it
WithJunk(e) == {<<33>> \o e, Take(e, 5) \o <<32>> \o Drop(e, 5), e \o <<10>>}

\* the envelope of e's hex text followed by "zz"
WithHexJunk(e) ==
  Base64Encode(Utf8Encode(Utf8Decode(Base64Decode(e)) \o <<122, 122>>))

\* key material derived from a secret other than the configured ones
OtherKey == Derive(EnvStr("otherKey"), KeyLen)

OtherIV == Derive(EnvStr("otherKey"), IvLen)

\* the envelope of p under another key, and under another IV
ForeignKeyEnvelope(p) ==
  encryptDataWith("aes-256-cbc", OtherKey, encryptionIV, Str(p)).val

ForeignIVEnvelope(p) ==
  encryptDataWith("aes-256-cbc", key, OtherIV, Str(p)).val

CoreRequests ==
  {Req("/encrypt", Body(Str(p), Undefined)) : p \in Plaintexts}
    \cup {Req("/encrypt", NoBody),
          Req("/decrypt", NoBody),
          Req("/decrypt", Body(Undefined, Str(<<>>)))}
    \cup (IF lastEnc = NoExchange THEN {}
          ELSE {Req("/decrypt", Body(Str(lastEnc.envelope), Undefined))})
    \cup (IF lastEnc = NoExchange THEN {}
          ELSE {Req("/decrypt", Body(Undefined, Str(e))) :
                  e \in {lastEnc.envelope, WithHexJunk(lastEnc.envelope),
                         ForeignKeyEnvelope(lastEnc.data),
                         ForeignIVEnvelope(lastEnc.data)}
                        \cup Tampered(lastEnc.envelope)
                        \cup WithJunk(lastEnc.envelope)})

\* the client sends its next request once the last one is answered
CoreSend ==
  /\ pc = "listening"
  /\ slots[1].stage = "idle"
  /\ \E r \in CoreRequests : Dispatch(1, r)

CoreNext ==
  \/ Startup
  \/ CoreSend
  \/ EncUpdate(1)
  \/ EncFinal(1)
  \/ DecUpdate(1)
  \/ DecFinal(1)
  \/ Deliver(1)

CoreSpec == Init /\ [][CoreNext]_vars

(***************************************************************************)
(* Properties.                                                             *)
(***************************************************************************)
Responded(i) == slots[i].stage = "responded"

InFlight(i) == slots[i].stage \in {"created", "updated"}

CipherKnown == config.ecnryption_method.s = "aes-256-cbc"

\* slot i holds the answer to POST /decrypt { encryptedData: E }, E being the
\* envelope the server returned for lastEnc.data
AnswersLastEnvelope(i) ==
  /\ Responded(i)
  /\ slots[i].route = "/decrypt"
  /\ lastEnc # NoExchange
  /\ slots[i].body.encryptedData = Str(lastEnc.envelope)

\* what a text becomes when it is written as UTF-8 and read back
Utf8RoundTrip(s) == Utf8Decode(Utf8Encode(s))

OkResponse(i, json) == slots[i].status = 200 /\ slots[i].json = json

ErrorResponse(i) == slots[i].status = 500 /\ slots[i].json = NoBody

\* C1: decrypting the envelope encryptData returned for a string P succeeds,
\* and returns exactly P if and only if P is well-formed (has no unpaired
\* surrogate); otherwise it returns P with U+FFFD for each unpaired surrogate.
RoundTripWellFormed ==
  \A i \in SlotIds :
    AnswersLastEnvelope(i) =>
      /\ OkResponse(i, Body(Str(Utf8RoundTrip(lastEnc.data)), Undefined))
      /\ slots[i].json.data = Str(lastEnc.data) <=> WellFormed(lastEnc.data)

\* C1 as stated: the round trip returns exactly P for every string P.
RoundTripEveryString ==
  \A i \in SlotIds :
    AnswersLastEnvelope(i) => OkResponse(i, Body(Str(lastEnc.data), Undefined))

\* a round trip of fourteen 'x' and a surrogate pair: two blocks, four-byte UTF-8
RoundTripWitness ==
  \E i \in SlotIds :
    /\ AnswersLastEnvelope(i)
    /\ lastEnc.data = Rep(120, 14) \o <<55357, 56832>>
    /\ OkResponse(i, Body(Str(lastEnc.data), Undefined))

EnvMissing ==
  Falsy(env.SECRET_KEY) \/ Falsy(env.SECRET_IV) \/ Falsy(env.ECNRYPTION_METHOD)

\* C3: when a setting is missing or empty, startup ends before the key is
\* derived: the server never listens, no request is accepted and neither
\* encryptData nor decryptData is ever entered.
MissingConfigNeverServes ==
  EnvMissing =>
    /\ pc \in {"config", "encryption", "crashed"}
    /\ ~accepted
    /\ ~called
    /\ keyDerivations = 0
    /\ \A i \in SlotIds : slots[i] = IdleSlot

\* startup has thrown with only the cipher name left empty
MissingConfigWitness ==
  /\ pc = "crashed"
  /\ env.SECRET_KEY = EnvStr("secretKey")
  /\ env.SECRET_IV = EnvStr("secretIV")
  /\ env.ECNRYPTION_METHOD = EnvStr("")

\* slot i holds a successful answer of /encrypt
Encrypted(i) ==
  Responded(i) /\ slots[i].route = "/encrypt" /\ slots[i].status = 200

\* C4: encrypting the same plaintext again, at any later time and with other
\* calls around it, returns the identical envelope.
EncryptDeterministic ==
  \A i \in SlotIds :
    Encrypted(i) =>
      /\ (lastEnc # NoExchange /\ slots[i].body.data.s = lastEnc.data)
           => slots[i].json.encryptedData.s = lastEnc.envelope
      /\ \A j \in SlotIds :
           (Encrypted(j) /\ slots[j].body.data = slots[i].body.data)
             => slots[j].json = slots[i].json

\* "Hi" encrypted a second time, next to a request that has failed
EncryptDeterministicWitness ==
  \E i, j \in SlotIds :
    /\ Encrypted(i)
    /\ lastEnc = [data |-> <<72, 105>>, envelope |-> slots[i].json.encryptedData.s]
    /\ slots[i].body.data = Str(<<72, 105>>)
    /\ Responded(j)
    /\ slots[j].status = 500

\* e2 is e with one character replaced by another character of the alphabet
OneCharReplaced(e2, e) ==
  /\ Len(e2) = Len(e)
  /\ \E pos \in 1..Len(e) :
       /\ e2[pos] # e[pos]
       /\ Unbase64(e2[pos]) # 64
       /\ \A k \in (1..Len(e)) \ {pos} : e2[k] = e[k]

\* the characters of e before its '=' padding
SignificantChars(e) == Cardinality({j \in 1..Len(e) : e[j] # PadChar})

\* 2 to the number of bits of the last significant character that belong to
\* no byte
SpareRange(e) ==
  LET spare == (6 * SignificantChars(e)) % 8
  IN  IF spare = 2 THEN 4 ELSE IF spare = 4 THEN 16 ELSE 1

\* e2 differs from e in the last significant character only, and there only
\* in the bits that belong to no byte
SpareBitsOnly(e2, e) ==
  LET n == SignificantChars(e)
  IN  /\ Len(e2) = Len(e)
      /\ n >= 1
      /\ e2[n] # e[n]
      /\ Unbase64(e2[n]) # 64
      /\ Unbase64(e2[n]) \div SpareRange(e) = Unbase64(e[n]) \div SpareRange(e)
      /\ \A k \in (1..Len(e)) \ {n} : e2[k] = e[k]

\* two hex texts that differ at most in the case of their digits
SameHexDigits(t2, t1) ==
  /\ Len(t2) = Len(t1)
  /\ \A j \in 1..Len(t1) : Unhex(t2[j]) # 16 /\ Unhex(t2[j]) = Unhex(t1[j])

\* slot i holds the answer to /decrypt of the last envelope with one
\* character replaced
AnswersTampered(i) ==
  /\ Responded(i)
  /\ slots[i].route = "/decrypt"
  /\ CipherKnown
  /\ lastEnc # NoExchange
  /\ IsString(slots[i].body.encryptedData)
  /\ OneCharReplaced(slots[i].body.encryptedData.s, lastEnc.envelope)

\* C5: with one character of the envelope E of P replaced, decryptData fails
\* whenever the decoded text has odd length or its hex digits do not make a
\* positive whole number of blocks; it returns what decryptData(E) returns
\* when the replacement changes only bits that belong to no byte, or only
\* the case of a hex digit.
TamperOutcome ==
  \A i \in SlotIds :
    AnswersTampered(i) =>
      LET e2    == slots[i].body.encryptedData.s
          text2 == Utf8Decode(Base64Decode(e2))
          text  == Utf8Decode(Base64Decode(lastEnc.envelope))
          bytes == HexDecode(text2)
      IN  /\ (SpareBitsOnly(e2, lastEnc.envelope) \/ SameHexDigits(text2, text))
               => OkResponse(i, Body(Str(Utf8RoundTrip(lastEnc.data)), Undefined))
          /\ (Len(text2) % 2 = 1 \/ bytes = <<>> \/ Len(bytes) % BlockSize # 0)
               => ErrorResponse(i)

\* C5 as stated: decryptData fails for every such replacement.
TamperAlwaysFails ==
  \A i \in SlotIds : AnswersTampered(i) => ErrorResponse(i)

\* a replacement inside the ciphertext has been rejected
TamperWitness ==
  \E i \in SlotIds :
    /\ AnswersTampered(i)
    /\ ~SpareBitsOnly(slots[i].body.encryptedData.s, lastEnc.envelope)
    /\ ErrorResponse(i)

\* s holds a character that is neither of the Base64 alphabet nor '='
NotBase64(s) == \E j \in 1..Len(s) : Unbase64(s[j]) = 64 /\ s[j] # PadChar

\* s holds a character that is no hex digit
NotHex(s) == \E j \in 1..Len(s) : Unhex(s[j]) = 16

\* slot i holds the answer to a /decrypt request
Decrypted(i) == Responded(i) /\ slots[i].route = "/decrypt" /\ CipherKnown

Unanswerable(i) ==
  \/ ~CipherKnown
  \/ slots[i].route = "/encrypt" /\ ~IsString(slots[i].body.data)
  \/ slots[i].route = "/decrypt"
       /\ slots[i].body.encryptedData \in {Undefined, Str(<<>>)}

\* C7: a handler that throws costs its own request an error response and
\* nothing else: the process goes on listening, and requests answered after
\* a failure are answered as before.
ServerSurvivesFailure ==
  /\ (accepted \/ failed) => pc = "listening"
  /\ \A i \in SlotIds :
       Responded(i) =>
         /\ slots[i].status \in {200, 500}
         /\ slots[i].status = 500 => (slots[i].json = NoBody /\ failed)
         /\ Unanswerable(i) => slots[i].status = 500
         /\ (failed /\ CipherKnown /\ slots[i].route = "/encrypt"
               /\ IsString(slots[i].body.data))
              => slots[i].status = 200
         /\ (failed /\ CipherKnown /\ AnswersLastEnvelope(i))
              => slots[i].status = 200

\* one request has failed and another has been answered
ServerSurvivesWitness ==
  \E i, j \in SlotIds :
    /\ Responded(i)
    /\ slots[i].status = 500
    /\ AnswersLastEnvelope(j)
    /\ slots[j].status = 200
    /\ failed
    /\ pc = "listening"

\* C8: a request without its field fails, and so does POST /decrypt with an
\* empty encryptedData, each with an error response while the process goes
\* on; POST /encrypt with an empty data succeeds and returns an envelope of
\* one block, 44 characters long.
MissingFieldFailsEmptyDataEncrypts ==
  \A i \in SlotIds :
    Responded(i) =>
      /\ (slots[i].route = "/encrypt" /\ slots[i].body.data = Undefined)
           => ErrorResponse(i)
      /\ (slots[i].route = "/decrypt"
            /\ slots[i].body.encryptedData \in {Undefined, Str(<<>>)})
           => ErrorResponse(i)
      /\ slots[i].status = 500 => pc = "listening"
      /\ (slots[i].route = "/encrypt" /\ slots[i].body.data = Str(<<>>)
            /\ CipherKnown)
           => /\ slots[i].status = 200
              /\ Len(slots[i].json.encryptedData.s) = 44

\* C8 as stated: a missing or empty field makes the crypto call fail.
MissingOrEmptyFieldFails ==
  \A i \in SlotIds :
    ( /\ Responded(i)
      /\ \/ slots[i].route = "/encrypt"
              /\ slots[i].body.data \in {Undefined, Str(<<>>)}
         \/ slots[i].route = "/decrypt"
              /\ slots[i].body.encryptedData \in {Undefined, Str(<<>>)} )
      => ErrorResponse(i)

\* the empty string has been encrypted, and an empty envelope refused
EmptyDataWitness ==
  \E i, j \in SlotIds :
    /\ Encrypted(i)
    /\ slots[i].body.data = Str(<<>>)
    /\ Responded(j)
    /\ slots[j].route = "/decrypt"
    /\ slots[j].body.encryptedData = Str(<<>>)
    /\ slots[j].status = 500

\* C9: the key and the IV are derived once each, before the server listens,
\* from SECRET_KEY and SECRET_IV, and every call finds them as derived.
KeyMaterialDerivedOnce ==
  /\ keyDerivations <= 1
  /\ ivDerivations <= 1
  /\ (pc = "listening" \/ accepted \/ called) =>
       /\ keyDerivations = 1
       /\ ivDerivations = 1
       /\ key = Take(Sha512Hex(env.SECRET_KEY.s), 32)
       /\ encryptionIV = Take(Sha512Hex(env.SECRET_IV.s), 16)
  /\ \A i \in SlotIds :
       InFlight(i) => /\ heap[slots[i].cipher].key = key
                      /\ Len(heap[slots[i].cipher].chain) = 16

\* calls have been made, one of them failing, and one is under way
KeyMaterialWitness ==
  /\ pc = "listening"
  /\ failed
  /\ lastEnc # NoExchange
  /\ \E i \in SlotIds : InFlight(i)

\* the bytes a call in slot i passes to update()
UpdateInput(i) ==
  IF slots[i].route = "/encrypt" THEN Utf8Encode(slots[i].body.data.s)
  ELSE HexDecode(Utf8Decode(Base64Decode(slots[i].body.encryptedData.s)))

\* the Cipher or Decipher a call in slot i would have made had it run alone
FreshCipher(i) == NewCipher(slots[i].route = "/decrypt", key, encryptionIV)

\* the response to the request in slot i had it been the only one
AloneResponse(i) ==
  LET r == IF slots[i].route = "/encrypt" THEN encryptData(slots[i].body.data)
           ELSE decryptData(slots[i].body.encryptedData)
  IN  IF ~r.ok THEN [status |-> 500, json |-> NoBody]
      ELSE IF slots[i].route = "/encrypt"
        THEN [status |-> 200, json |-> Body(Undefined, Str(r.val))]
      ELSE [status |-> 200, json |-> Body(Str(r.val), Undefined)]

\* C10: calls whose steps interleave do not affect one another: each works
\* on a Cipher object of its own, which at every step is in the state it
\* would have in a run alone, and each response is the one a run alone gives.
CallsIndependent ==
  /\ \A i, j \in SlotIds :
       (InFlight(i) /\ InFlight(j) /\ i # j) => slots[i].cipher # slots[j].cipher
  /\ \A i \in SlotIds :
       /\ slots[i].stage = "created" => heap[slots[i].cipher] = FreshCipher(i)
       /\ slots[i].stage = "updated"
            => heap[slots[i].cipher] = CipherUpdate(FreshCipher(i), UpdateInput(i)).c
       /\ Responded(i)
            => [status |-> slots[i].status, json |-> slots[i].json] = AloneResponse(i)

\* an encryption and a decryption are both between update() and final()
CallsInterleavedWitness ==
  \E i, j \in SlotIds :
    /\ slots[i].stage = "updated"
    /\ slots[i].route = "/encrypt"
    /\ slots[j].stage = "updated"
    /\ slots[j].route = "/decrypt"
    /\ slots[j].body.encryptedData = Str(lastEnc.envelope)
    /\ lastEnc # NoExchange

=============================================================================
